---- MODULE Spec2Model ----
(***************************************************************************)
(* A model of the live-ISO staging pipeline of mauimic/imager/livecd.py:   *)
(* LiveImageCreatorBase (staging directory, _stage_final_image, ISO        *)
(* assembly, the initrd-generation files written at mount and restored at  *)
(* unmount) and x86LiveImageCreator (syslinux and EFI configuration).      *)
(*                                                                         *)
(* The host framework (mic) is outside the repository.  Its calls are      *)
(* modelled by their outcomes only: an external tool exits zero or         *)
(* non-zero, a probe finds a file or not, msger.error returns or ends the  *)
(* process.                                                                *)
(***************************************************************************)
EXTENDS Integers, Sequences, FiniteSets, TLC

VARIABLES
    kernels,          \* result of _get_kernel_versions(): ordered package -> versions
    default_kernel,   \* self._default_kernel
    root,             \* the files present under self._instroot
    skip_minimize,    \* self.skip_minimize
    skip_compression, \* self.skip_compression
    pack_to,          \* self.pack_to ("" when packing is not requested)
    isodir,           \* self.__isodir
    ndirs,            \* number of directories _mkdtemp has handed out
    dirs,             \* the temporary directories that exist
    staged,           \* files and directories inside the staging directory
    cfg,              \* content of <isodir>/isolinux/isolinux.cfg
    files,            \* image and output files outside the staging directory
    pc,               \* position of the run
    exc,              \* the exception travelling to the caller
    trace,            \* the calls _stage_final_image has made, in order, with results
    self_isDracut,    \* self._isDracut ("unset" until __get_image_stanzas sets it)
    grub,             \* content of <isodir>/EFI/BOOT/grub.cfg
    seen,             \* the staging directory each operation was handed, by operation
    conf,             \* the initrd-generation files of the root, with their .rpmnew
    conf0             \* conf as it was before _mount_instroot

vars == <<kernels, default_kernel, root, skip_minimize, skip_compression,
          pack_to, isodir, ndirs, dirs, staged, cfg, files, pc, exc, trace,
          self_isDracut, grub, seen, conf, conf0>>

\* the state outside the staging pipeline
efivars == <<self_isDracut, grub>>
confvars == <<conf, conf0>>

None == "None"

-----------------------------------------------------------------------------
(* Bounds of the model. *)

\* packages in the mapping _get_kernel_versions returns
MaxPkgs == 2
\* versions per package
MaxVers == 2
\* paths in which a root differs from the normal root of its kernels
MaxDeviations == 1

-----------------------------------------------------------------------------
(* Python string helpers. *)

\* s.startswith(p)
StartsWith(s, p) == Len(s) >= Len(p) /\ SubSeq(s, 1, Len(p)) = p

\* s[n:]
DropFirst(s, n) == SubSeq(s, n + 1, Len(s))

\* s[:-n]
DropLast(s, n) == SubSeq(s, 1, Len(s) - n)

-----------------------------------------------------------------------------
(* The inputs of a run. *)

Pkgs == {"kernel", "kernel-xen"}

DefaultKernels == {"kernel", "xen", None}

\* the j-th release of a package; xen builds carry the "xen" suffix
VersionOf(p, j) ==
    "3." \o ToString(j) \o ".0" \o (IF p = "kernel-xen" THEN "xen" ELSE "")

\* sequences of distinct packages, each with one or more versions
KernelMaps ==
    { m \in UNION { [1..n -> [pkg : Pkgs, vers : { [j \in 1..c |-> j] : c \in 1..MaxVers }]]
                    : n \in 0..MaxPkgs } :
        /\ \A i, j \in 1..Len(m) : i # j => m[i].pkg # m[j].pkg }

\* the dictionary with the version strings filled in
KernelDict(m) ==
    [i \in 1..Len(m) |->
        [pkg |-> m[i].pkg,
         vers |-> [j \in 1..Len(m[i].vers) |-> VersionOf(m[i].pkg, j)]]]

RECURSIVE Flatten(_)
\* ((k, v) for k in kernels for v in kernels[k])
Flatten(ks) ==
    IF ks = <<>> THEN <<>>
    ELSE [j \in 1..Len(Head(ks).vers) |-> [pkg |-> Head(ks).pkg, version |-> Head(ks).vers[j]]]
         \o Flatten(Tail(ks))

SyslinuxLib == "/usr/lib/syslinux/"
SyslinuxShare == "/usr/share/syslinux/"
SyslinuxNames == {"isolinux.bin", "ldlinux.c32", "libcom32.c32", "libutil.c32",
                  "vesamenu.c32", "menu.c32", "mboot.c32"}

SplashNew == "/usr/share/anaconda/boot/syslinux-vesa-splash.png"
SplashOld == "/usr/lib/anaconda-runtime/syslinux-vesa-splash.png"
Memtest == "/boot/memtest86+"

InitrdStyles == {"initramfs", "initrd"}

\* the root a package manager leaves for these kernels
NormalRoot(ks, style) ==
    LET vs == { Flatten(ks)[i].version : i \in 1..Len(Flatten(ks)) } IN
    { "/boot/vmlinuz-" \o v : v \in vs }
    \cup { "/boot/" \o style \o "-" \o v \o ".img" : v \in vs }
    \cup { "/boot/xen.gz-" \o DropLast(v, 3) : v \in { w \in vs : DropFirst(w, Len(w) - 3) = "xen" } }
    \cup { SyslinuxShare \o f : f \in SyslinuxNames }
    \cup { "/usr/bin/checkisomd5" }

\* files a root may hold on top of the normal ones
ExtraPaths == {Memtest, SplashNew, "/usr/bin/plymouth", SyslinuxLib \o "menu.c32"}

\* the fields the plugin may set away from their constructor defaults
OptionNames == {"skip_minimize", "skip_compression", "pack_to"}

RECURSIVE SubsetsUpTo(_, _)
\* the subsets of S with at most k elements
SubsetsUpTo(S, k) ==
    IF k = 0 THEN {{}}
    ELSE LET prev == SubsetsUpTo(S, k - 1) IN
         prev \cup { d \cup {x} : d \in prev, x \in S }

\* the ways a run may differ from the normal root and the default options
Deviations(ks, style) ==
    SubsetsUpTo(NormalRoot(ks, style) \cup ExtraPaths \cup OptionNames, MaxDeviations)

RootOf(ks, style, d) ==
    (NormalRoot(ks, style) \ d) \cup (d \cap ExtraPaths)

PackName == "live.tar"

ImagePath == "imgdir/live.img"
ImageLiveOS == "imgdir/LiveOS/ext3fs.img"
IsoPath == "outdir/live.iso"
PackPath(p) == "outdir/" \o p

-----------------------------------------------------------------------------
(* LiveImageCreatorBase: helpers. *)

\* os.path.exists / os.path.isfile on a path below self._instroot
Exists(rt, path) == path \in rt

\* an __ensure_isodir that asks _mkdtemp for a directory on every call
EnsuredIsodir_Fresh == "iso-" \o ToString(ndirs + 1)

\* __ensure_isodir: the directory to use and whether _mkdtemp("iso-") made it
EnsuredIsodir == IF isodir = None THEN "iso-" \o ToString(ndirs + 1) ELSE isodir

\* an operation and the directory __ensure_isodir returned to it
Handed(op, dir) == [op |-> op, dir |-> dir]

\* _has_checkisomd5
HasCheckisomd5(rt) ==
    \/ Exists(rt, "/usr/lib/anaconda-runtime/checkisomd5")
    \/ Exists(rt, "/usr/bin/checkisomd5")

\* _get_kernel_options, without a kickstart
KernelOptions(rt) ==
    LET default == "ro quiet rd.live.image rd.luks=0 rd.md=0 rd.dm=0" IN
    IF Exists(rt, "/usr/bin/plymouth") \/ Exists(rt, "/usr/bin/ply-image")
    THEN default \o " splash"
    ELSE default

-----------------------------------------------------------------------------
(* x86LiveImageCreator: syslinux configuration.                             *)
(* A step takes and returns the record st = [staged, exc]: the content of   *)
(* the staging directory and the exception raised so far (None if none).    *)

Raise(st, e) == [st EXCEPT !.exc = e]
Copy(st, name) == [st EXCEPT !.staged = @ \cup {name}]

\* __find_syslinux_menu: the menu module, None where the code raises
FindSyslinuxMenu(rt) ==
    IF Exists(rt, SyslinuxLib \o "vesamenu.c32") \/ Exists(rt, SyslinuxShare \o "vesamenu.c32")
    THEN "vesamenu.c32"
    ELSE IF Exists(rt, SyslinuxLib \o "menu.c32") \/ Exists(rt, SyslinuxShare \o "menu.c32")
    THEN "menu.c32"
    ELSE None

\* __find_syslinux_mboot: glob("/boot/xen.gz*")
FindSyslinuxMboot(rt) ==
    IF \E p \in rt : StartsWith(p, "/boot/xen.gz") THEN "mboot.c32" ELSE None

\* the local variable path of __copy_syslinux_files before its first assignment
Unbound == [dir |-> None, name |-> None]

\* the path the loop of __copy_syslinux_files holds after looking for f
SyslinuxPath(rt, f, path) ==
    IF Exists(rt, SyslinuxLib \o f) THEN [dir |-> SyslinuxLib, name |-> f]
    ELSE IF Exists(rt, SyslinuxShare \o f) THEN [dir |-> SyslinuxShare, name |-> f]
    ELSE path

\* the end of one iteration: the isfile test and shutil.copy(path, isolinux/)
CopySyslinuxFile(rt, p, st) ==
    IF p = Unbound THEN Raise(st, "UnboundLocalError")
    ELSE IF ~Exists(rt, p.dir \o p.name)
    THEN Raise(st, "CreatorError: syslinux not installed : file not found")
    ELSE Copy(st, "isolinux/" \o p.name)

RECURSIVE CopySyslinuxLoop(_, _, _, _)
\* the loop of __copy_syslinux_files; path keeps its value between iterations
CopySyslinuxLoop(rt, fs, path, st) ==
    IF fs = <<>> \/ st.exc # None THEN st
    ELSE CopySyslinuxLoop(rt, Tail(fs), SyslinuxPath(rt, Head(fs), path),
                          CopySyslinuxFile(rt, SyslinuxPath(rt, Head(fs), path), st))

\* __copy_syslinux_files
CopySyslinuxFiles(rt, menu, mboot, st) ==
    LET fs == <<"isolinux.bin", "ldlinux.c32", "libcom32.c32", "libutil.c32", menu>>
              \o (IF mboot # None THEN <<mboot>> ELSE <<>>)
    IN CopySyslinuxLoop(rt, fs, Unbound, st)

\* __copy_syslinux_background: whether a splash image was copied
HasBackground(rt) == Exists(rt, SplashNew) \/ Exists(rt, SplashOld)

\* what msger.error does after printing: it returns, or it ends the process
ErrorOutcomes == {"returns", "exits"}

\* a kernel copy that does not put the index into the file name
CopyVmlinuz_Index0(rt, r, version, index) ==
    IF Exists(rt, "/boot" \o "/vmlinuz-" \o version)
    THEN Copy(r, "isolinux/vmlinuz" \o "0")
    ELSE Raise(r, "IOError")

\* __copy_kernel_and_initramfs: shutil.copyfile of the kernel
CopyVmlinuz(rt, r, version, index) ==
    IF Exists(rt, "/boot" \o "/vmlinuz-" \o version)
    THEN Copy(r, "isolinux/vmlinuz" \o index)
    ELSE Raise(r, "IOError")

\* __copy_kernel_and_initramfs: the initramfs, else the initrd, else msger.error
CopyInitrd(rt, r, version, index, onError) ==
    IF r.exc # None THEN r
    ELSE IF Exists(rt, "/boot" \o "/initramfs-" \o version \o ".img")
    THEN [Copy(r, "isolinux/initrd" \o index \o ".img") EXCEPT !.isDracut = TRUE]
    ELSE IF Exists(rt, "/boot" \o "/initrd-" \o version \o ".img")
    THEN Copy(r, "isolinux/initrd" \o index \o ".img")
    ELSE IF onError = "exits" THEN Raise(r, "SystemExit")
    ELSE r

\* __copy_kernel_and_initramfs: the hypervisor of version[:-3]
CopyXen(rt, r, version, index) ==
    IF r.exc # None THEN r
    ELSE IF Exists(rt, "/boot" \o "/xen.gz-" \o DropLast(version, 3))
    THEN [Copy(r, "isolinux/xen" \o index \o ".gz") EXCEPT !.is_xen = TRUE]
    ELSE r

\* __copy_kernel_and_initramfs: st with is_xen and isDracut added
CopyKernelAndInitramfs(rt, st, version, index, onError) ==
    CopyXen(rt,
        CopyInitrd(rt,
            CopyVmlinuz(rt, [staged |-> st.staged, exc |-> st.exc,
                             is_xen |-> FALSE, isDracut |-> FALSE],
                        version, index),
            version, index, onError),
        version, index)

\* if index == "0": self._isDracut = isDracut; st is the state before the loop
FirstIsDracut(rt, version, onError, was, st) ==
    IF st.exc # None THEN was
    ELSE IF CopyKernelAndInitramfs(rt, st, version, "0", onError).exc # None THEN was
    ELSE IF CopyKernelAndInitramfs(rt, st, version, "0", onError).isDracut THEN "True"
    ELSE "False"

Fslabel == "live"
Product == "Linux"

\* __is_default_kernel
IsDefaultKernel(kernel, ks, dflt) ==
    IF Len(ks) = 1 THEN TRUE
    ELSE IF kernel = dflt THEN TRUE
    ELSE IF StartsWith(kernel, "kernel-") /\ DropFirst(kernel, 7) = dflt THEN TRUE
    ELSE FALSE

\* a stanza whose root is given without the "live:" of dracut
ImageStanza_NoLive(is_xen, isDracut, liveargs, long, short, extra, help, index) ==
    [label |-> short,
     menulabel |-> long,
     kernel |-> IF is_xen THEN "mboot.c32" ELSE "vmlinuz" \o index,
     refs |-> IF is_xen
              THEN <<"mboot.c32", "xen" \o index \o ".gz", "vmlinuz" \o index,
                     "initrd" \o index \o ".img">>
              ELSE <<"vmlinuz" \o index, "initrd" \o index \o ".img">>,
     rootlabel |-> "CDLABEL=" \o Fslabel,
     rootfstype |-> "auto",
     liveargs |-> liveargs,
     extra |-> extra,
     help |-> help,
     menudefault |-> FALSE]

\* __get_image_stanza: the stanza as its fields; refs are the files it names
ImageStanza(is_xen, isDracut, liveargs, long, short, extra, help, index) ==
    [label |-> short,
     menulabel |-> long,
     kernel |-> IF is_xen THEN "mboot.c32" ELSE "vmlinuz" \o index,
     refs |-> IF is_xen
              THEN <<"mboot.c32", "xen" \o index \o ".gz", "vmlinuz" \o index,
                     "initrd" \o index \o ".img">>
              ELSE <<"vmlinuz" \o index, "initrd" \o index \o ".img">>,
     rootlabel |-> IF isDracut THEN "live:CDLABEL=" \o Fslabel ELSE "CDLABEL=" \o Fslabel,
     rootfstype |-> "auto",
     liveargs |-> liveargs,
     extra |-> extra,
     help |-> help,
     menudefault |-> FALSE]

\* the long menu name __get_image_stanzas gives a kernel
LongName(kernel, default) ==
    IF default THEN Product
    ELSE IF StartsWith(kernel, "kernel-")
    THEN Product \o " (" \o DropFirst(kernel, 7) \o ")"
    ELSE Product \o " (" \o kernel \o ")"

\* kern_opts: dracut is told not to ask for LUKS passwords or activate mdraid
KernOpts(rt, isDracut) ==
    IF isDracut THEN KernelOptions(rt) \o " rd.luks=0 rd.md=0 rd.dm=0"
    ELSE KernelOptions(rt)

\* if default: linux[-1] += "  menu default\n"
MenuDefault(stanza, default) == [stanza EXCEPT !.menudefault = default]

\* the stanza appended to linux
LinuxStanza(rt, long, default, index, c) ==
    MenuDefault(ImageStanza(c.is_xen, c.isDracut, KernOpts(rt, c.isDracut),
                            "^Start " \o long, "linux" \o index, "", "", index),
                default)

\* the stanza appended to basic
BasicStanza(rt, long, index, c) ==
    ImageStanza(c.is_xen, c.isDracut, KernOpts(rt, c.isDracut),
                "Start " \o long \o " in ^basic graphics mode.", "basic" \o index,
                "nomodeset", "Try this option out if you're having trouble starting.",
                index)

\* a check stanza appended whether or not checkisomd5 is there
CheckStanza_Always(rt, checkisomd5, long, index, c) ==
    <<ImageStanza(c.is_xen, c.isDracut, KernOpts(rt, c.isDracut),
                  "^Test this media & start " \o long, "check" \o index,
                  "rd.live.check", "", index)>>

\* what is appended to check: <<stanza>>, or <<>> for None
CheckStanza(rt, checkisomd5, long, index, c) ==
    IF checkisomd5
    THEN <<ImageStanza(c.is_xen, c.isDracut, KernOpts(rt, c.isDracut),
                       "^Test this media & start " \o long, "check" \o index,
                       "rd.live.check", "", index)>>
    ELSE <<>>

\* one iteration of the loop of __get_image_stanzas, after the copy c
\* acc = [staged, exc, linux, basic, check]
Iteration(rt, kernel, default, index, acc, c) ==
    IF c.exc # None
    THEN [acc EXCEPT !.staged = c.staged, !.exc = c.exc]
    ELSE [acc EXCEPT !.staged = c.staged,
                     !.linux = Append(@, LinuxStanza(rt, LongName(kernel, default),
                                                     default, index, c)),
                     !.basic = Append(@, BasicStanza(rt, LongName(kernel, default), index, c)),
                     !.check = Append(@, CheckStanza(rt, HasCheckisomd5(rt),
                                                     LongName(kernel, default), index, c))]

RECURSIVE ImageStanzasLoop(_, _, _, _, _, _, _)
\* the loop of __get_image_stanzas over pairs[i + 1 ..]; index is str(i)
ImageStanzasLoop(rt, ks, dflt, pairs, i, onError, acc) ==
    IF i >= Len(pairs) \/ acc.exc # None THEN acc
    ELSE ImageStanzasLoop(rt, ks, dflt, pairs, i + 1, onError,
            Iteration(rt, pairs[i + 1].pkg,
                      IsDefaultKernel(pairs[i + 1].pkg, ks, dflt),
                      ToString(i), acc,
                      CopyKernelAndInitramfs(rt, acc, pairs[i + 1].version,
                                             ToString(i), onError)))

\* __get_image_stanzas
ImageStanzas(rt, ks, dflt, onError, st) ==
    ImageStanzasLoop(rt, ks, dflt, Flatten(ks), 0, onError,
        [staged |-> st.staged, exc |-> st.exc, linux |-> <<>>, basic |-> <<>>, check |-> <<>>])

\* a stanza that boots no image of the root
PlainStanza(short, long, kernel, refs) ==
    [label |-> short, menulabel |-> long, kernel |-> kernel, refs |-> refs,
     rootlabel |-> "", rootfstype |-> "", liveargs |-> "", extra |-> "",
     help |-> "", menudefault |-> FALSE]

\* __get_memtest_stanza: glob("/boot/memtest86*")
HasMemtest(rt) == \E p \in rt : StartsWith(p, "/boot/memtest86")

RECURSIVE Zip(_, _)
\* for b, c in zip(basic, check): cfg += b; if c: cfg += c
Zip(basic, check) ==
    IF basic = <<>> \/ check = <<>> THEN <<>>
    ELSE <<Head(basic)>> \o Head(check) \o Zip(Tail(basic), Tail(check))

\* isolinux.cfg before it is written
NoCfg == [header |-> <<>>, body |-> <<>>]

\* the text of isolinux.cfg: the header, then the stanzas in order
CfgText(rt, menu, s) ==
    [header |-> <<[default |-> menu,
                   timeout |-> 10 * 10,
                   background |-> IF HasBackground(rt) THEN "splash.png" ELSE "",
                   title |-> Product]>>,
     body |-> s.linux
              \o Zip(s.basic, s.check)
              \o (IF HasMemtest(rt)
                  THEN <<PlainStanza("memtest", "Run a ^memory test", "memtest", <<"memtest">>)>>
                  ELSE <<>>)
              \o <<PlainStanza("local", "Boot from ^local drive", "", <<>>),
                   PlainStanza("returntomain", "Return to ^main menu.", "", <<>>)>>]

\* _configure_syslinux_bootloader from __get_memtest_stanza to cfgf.close()
WriteCfg(rt, menu, s) ==
    IF s.exc # None
    THEN [staged |-> s.staged, exc |-> s.exc, cfg |-> NoCfg]
    ELSE [staged |-> s.staged
                     \cup (IF HasMemtest(rt) THEN {"isolinux/memtest"} ELSE {})
                     \cup {"isolinux/isolinux.cfg"},
          exc |-> None,
          cfg |-> CfgText(rt, menu, s)]

\* __copy_syslinux_background into isolinux/splash.png
CopyBackground(rt, s) ==
    IF s.exc = None /\ HasBackground(rt) THEN Copy(s, "isolinux/splash.png") ELSE s

\* self._isDracut after _configure_syslinux_bootloader: set by the iteration
\* with index "0" when its copy returns, else what it was
IsDracutAfter(rt, ks, onError, was) ==
    IF FindSyslinuxMenu(rt) = None \/ Flatten(ks) = <<>> THEN was
    ELSE FirstIsDracut(rt, Flatten(ks)[1].version, onError, was,
            CopyBackground(rt,
                CopySyslinuxFiles(rt, FindSyslinuxMenu(rt), FindSyslinuxMboot(rt),
                    [staged |-> {}, exc |-> None])))

\* _configure_syslinux_bootloader: [staged, exc, cfg], cfg NoCfg unless written
ConfigureSyslinuxBootloader(rt, ks, dflt, onError, staged0) ==
    IF FindSyslinuxMenu(rt) = None
    THEN [staged |-> staged0 \cup {"isolinux/"},
          exc |-> "CreatorError: syslinux not installed : no suitable *menu.c32 found",
          cfg |-> NoCfg]
    ELSE WriteCfg(rt, FindSyslinuxMenu(rt),
            ImageStanzas(rt, ks, dflt, onError,
                CopyBackground(rt,
                    CopySyslinuxFiles(rt, FindSyslinuxMenu(rt), FindSyslinuxMboot(rt),
                        [staged |-> staged0 \cup {"isolinux/"}, exc |-> None]))))

-----------------------------------------------------------------------------
(* LiveImageCreatorBase: the initrd-generation files of the root.           *)
(* conf maps a path to [exists, text], text being the lines of a file.      *)

MkinitrdConf == "/etc/sysconfig/mkinitrd"
DracutConf == "/etc/dracut.conf.d/02livecd.conf"
ConfPaths == {MkinitrdConf, DracutConf}

RECURSIVE Dirname(_)
\* os.path.dirname(path)
Dirname(path) ==
    IF path = "" THEN ""
    ELSE IF SubSeq(path, Len(path), Len(path)) = "/" THEN DropLast(path, 1)
    ELSE Dirname(DropLast(path, 1))

Rpmnew(path) == path \o ".rpmnew"

AllConfPaths ==
    ConfPaths \cup { Rpmnew(p) : p \in ConfPaths } \cup { Dirname(p) : p \in ConfPaths }

Absent == [exists |-> FALSE, text |-> <<>>]
File(text) == [exists |-> TRUE, text |-> text]

\* self.__modules, without a kickstart
Modules == <<"=ata", "sym53c8xx", "aic7xxx", "=usb", "=firewire",
             "=mmc", "=pcmcia", "mptsas", "udf", "virtio_blk",
             "virtio_pci", "virtio_scsi", "virtio_net", "virtio_mmio",
             "virtio_balloon", "virtio-rng">>

\* __extra_filesystems
ExtraFilesystems == "vfat msdos isofs ext4 xfs btrfs"

RECURSIVE ExtraDriversLoop(_, _)
\* the loop of __extra_drivers over the modules left
ExtraDriversLoop(ms, retval) ==
    IF ms = <<>> THEN retval
    ELSE ExtraDriversLoop(Tail(ms),
            CASE Head(ms) = "=usb" ->
                   retval \o "ehci_hcd uhci_hcd ohci_hcd " \o "usb_storage usbhid "
              [] Head(ms) = "=firewire" ->
                   retval \o "firewire-sbp2 firewire-ohci " \o "sbp2 ohci1394 ieee1394 "
              [] Head(ms) = "=mmc" -> retval \o "mmc_block sdhci sdhci-pci "
              [] Head(ms) = "=pcmcia" -> retval \o "pata_pcmcia "
              [] OTHER -> retval \o Head(ms) \o " ")

\* __extra_drivers
ExtraDrivers == ExtraDriversLoop(Modules, "sr_mod sd_mod ide-cd cdrom ")

\* if not os.path.exists(os.path.dirname(path)): makedirs(os.path.dirname(path))
MakeConfDir(c, path) ==
    IF c[Dirname(path)].exists THEN c ELSE [c EXCEPT ![Dirname(path)] = File(<<>>)]

\* f = open(path, "a"); f.write(line) ...; f.close()
AppendLines(c, path, lines) == [c EXCEPT ![path] = File(@.text \o lines)]

\* __write_initrd_conf
WriteInitrdConf(c, path) ==
    AppendLines(MakeConfDir(c, path), path,
        <<"LIVEOS=\"yes\"",
          "PROBE=\"no\"",
          "MODULES+=\"" \o ExtraFilesystems \o "\"",
          "MODULES+=\"" \o ExtraDrivers \o "\"">>)

\* __write_dracut_conf
WriteDracutConf(c, path) ==
    AppendLines(MakeConfDir(c, path), path,
        <<"filesystems+=\"" \o ExtraFilesystems \o " \"",
          "drivers+=\"" \o ExtraDrivers \o " \"",
          "add_dracutmodules+=\" dmsquash-live pollcdrom \"",
          "hostonly=\"no\"",
          "dracut_rescue_image=\"no\"">>)

\* __restore_file: unlink, errors ignored; then the .rpmnew, if any, renamed
RestoreFile(c, path) ==
    IF c[Rpmnew(path)].exists
    THEN [c EXCEPT ![path] = c[Rpmnew(path)], ![Rpmnew(path)] = Absent]
    ELSE [c EXCEPT ![path] = Absent]

\* what _mount_instroot writes into the root
MountedConf(c) == WriteDracutConf(WriteInitrdConf(c, MkinitrdConf), DracutConf)

\* what _unmount_instroot leaves in the root
UnmountedConf(c) == RestoreFile(RestoreFile(c, MkinitrdConf), DracutConf)

\* a newly made image: none of the files, none of their directories
FreshConf == [p \in AllConfPaths |-> Absent]

\* the texts a file of the base image may hold
Texts == {<<>>, <<"# local settings">>}

\* the states of the files in an image the run is based on
BaseConfs ==
    { c \in [AllConfPaths -> {Absent} \cup { File(t) : t \in Texts }] :
        \A p \in ConfPaths :
            /\ c[Dirname(p)] \in {Absent, File(<<>>)}
            /\ ~c[Dirname(p)].exists => (~c[p].exists /\ ~c[Rpmnew(p)].exists) }

-----------------------------------------------------------------------------
(* x86LiveImageCreator: EFI configuration. *)

EfiDir == "/boot/efi/EFI/"
EfiVendor == "fedora"
EfiNames == {"shim.efi", "gcdx64.efi", "fonts/unicode.pf2"}

\* the EFI files a root may hold: the three of the vendor's directory, and a
\* shim.efi one directory further down, where the pattern does not look
EfiPaths ==
    { EfiDir \o EfiVendor \o "/" \o n : n \in EfiNames }
    \cup { EfiDir \o EfiVendor \o "/old/shim.efi" }

\* s.endswith(p)
EndsWith(s, p) == Len(s) >= Len(p) /\ SubSeq(s, Len(s) - Len(p) + 1, Len(s)) = p

\* no "/" in s: what a "*" of a glob pattern may stand for
OneComponent(s) == s # "" /\ \A i \in 1..Len(s) : SubSeq(s, i, i) # "/"

\* glob.glob(self._instroot + "/boot/efi/EFI/*/" + name)
EfiGlob(rt, name) ==
    { p \in rt : /\ StartsWith(p, EfiDir)
                 /\ EndsWith(p, "/" \o name)
                 /\ Len(p) > Len(EfiDir) + Len(name) + 1
                 /\ OneComponent(SubSeq(p, Len(EfiDir) + 1, Len(p) - Len(name) - 1)) }

BaseArchs == {"i386", "x86_64"}

\* efiarch
Efiarch(arch) == IF arch = "i386" THEN "IA32" ELSE "X64"

\* the (src, dest) pairs of __copy_efi_files, dest as the file the copy makes
EfiFiles(arch) ==
    <<[src |-> "shim.efi", dest |-> "EFI/BOOT/BOOT" \o Efiarch(arch) \o ".efi"],
      [src |-> "gcdx64.efi", dest |-> "EFI/BOOT/grubx64.efi"],
      [src |-> "fonts/unicode.pf2", dest |-> "EFI/BOOT/fonts/unicode.pf2"]>>

RECURSIVE CopyEfiLoop(_, _, _)
\* the loop of __copy_efi_files; r = [staged, exc, fail]
CopyEfiLoop(rt, fs, r) ==
    IF fs = <<>> THEN r
    ELSE CopyEfiLoop(rt, Tail(fs),
            IF EfiGlob(rt, Head(fs).src) = {}
            THEN [r EXCEPT !.fail = TRUE]
            ELSE Copy(r, Head(fs).dest))

\* map(msger.error, missing): the first call ends the process when msger.error does
ReportMissing(r, onError) ==
    IF r.fail /\ onError = "exits" THEN Raise(r, "SystemExit") ELSE r

\* __copy_efi_files: [staged, exc, fail]
CopyEfiFiles(rt, arch, onError, staged0) ==
    ReportMissing(
        CopyEfiLoop(rt, EfiFiles(arch),
            [staged |-> staged0 \cup {"EFI/", "EFI/BOOT/", "EFI/BOOT/fonts/"},
             exc |-> None, fail |-> FALSE]),
        onError)

\* shutil.rmtree(isodir + "/EFI"): what is left of the staging directory
RmtreeEfi(st) == { f \in st : ~StartsWith(f, "EFI/") }

\* grub.cfg before it is written
NoGrub == [header |-> <<>>, body |-> <<>>]

\* __get_efi_image_stanza
EfiImageStanza(dracut, long, extra, index, liveargs, submenu) ==
    [long |-> long,
     linuxefi |-> "/isolinux/vmlinuz" \o index,
     initrdefi |-> "/isolinux/initrd" \o index \o ".img",
     rootlabel |-> IF dracut = "True" THEN "live:LABEL=" \o Fslabel ELSE "CDLABEL=" \o Fslabel,
     liveargs |-> liveargs,
     extra |-> extra,
     submenu |-> submenu]

RECURSIVE EfiIndex(_, _)
\* for index in range(0, 9): the first index without EFI/BOOT/xen<index>.gz (9 if none)
EfiIndex(st, index) ==
    IF index >= 9 THEN 9
    ELSE IF ("EFI/BOOT/xen" \o ToString(index) \o ".gz") \in st THEN EfiIndex(st, index + 1)
    ELSE index

\* the stanzas __get_efi_image_stanzas writes for one index
EfiStanzasFor(rt, dracut, index) ==
    <<EfiImageStanza(dracut, "Start " \o Product, "", index, KernelOptions(rt), FALSE)>>
    \o (IF HasCheckisomd5(rt)
        THEN <<EfiImageStanza(dracut, "Test this media & start " \o Product,
                              "rd.live.check", index, KernelOptions(rt), FALSE)>>
        ELSE <<>>)
    \o <<EfiImageStanza(dracut, "Start " \o Product \o " in basic graphics mode",
                        "nomodeset", index, KernelOptions(rt), TRUE)>>

\* __get_efi_image_stanzas
EfiImageStanzas(rt, dracut, st) ==
    IF EfiIndex(st, 0) >= 9 THEN <<>>
    ELSE EfiStanzasFor(rt, dracut, ToString(EfiIndex(st, 0)))

\* the text of grub.cfg: __get_basic_efi_config, then the stanzas
GrubText(rt, dracut, st) ==
    [header |-> <<[default |-> "1", timeout |-> 10, isolabel |-> Fslabel]>>,
     body |-> EfiImageStanzas(rt, dracut, st)]

-----------------------------------------------------------------------------
(* The run. *)

Init ==
    /\ \E m \in KernelMaps, style \in InitrdStyles :
       \E d \in Deviations(KernelDict(m), style) :
         /\ kernels = KernelDict(m)
         /\ root = RootOf(KernelDict(m), style, d)
         /\ skip_minimize = ("skip_minimize" \in d)
         /\ skip_compression = ("skip_compression" \in d)
         /\ pack_to = IF "pack_to" \in d THEN PackName ELSE ""
    /\ default_kernel \in DefaultKernels
    /\ isodir = None
    /\ ndirs = 0
    /\ dirs = {}
    /\ staged = {}
    /\ cfg = NoCfg
    /\ files = {ImagePath}
    /\ pc = "configure"
    /\ exc = None
    /\ trace = <<>>
    /\ self_isDracut = "unset"
    /\ grub = NoGrub
    /\ seen = {}
    /\ conf0 = FreshConf
    /\ conf = MountedConf(FreshConf)

\* _create_bootconfig, called by the host's configure step; an exception
\* leaves it at once and ends the run
CreateBootconfig ==
    /\ pc = "configure"
    /\ \E onError \in ErrorOutcomes :
         LET r == ConfigureSyslinuxBootloader(root, kernels, default_kernel, onError, staged) IN
         /\ staged' = r.staged
         /\ cfg' = r.cfg
         /\ exc' = r.exc
         /\ pc' = IF r.exc = None THEN "package" ELSE "failed"
         /\ self_isDracut' = IsDracutAfter(root, kernels, onError, self_isDracut)
    /\ isodir' = EnsuredIsodir
    /\ ndirs' = IF isodir = None THEN ndirs + 1 ELSE ndirs
    /\ dirs' = dirs \cup {EnsuredIsodir}
    /\ seen' = seen \cup {Handed("_create_bootconfig", EnsuredIsodir)}
    /\ UNCHANGED <<grub, confvars>>
    /\ UNCHANGED <<kernels, default_kernel, root, skip_minimize, skip_compression,
                   pack_to, files, trace>>

\* exit statuses an external tool may return
ExitStatuses == {0, 1}

\* an entry of trace: the call and how it ended ("absent": the tool was looked
\* for and not found, so nothing ran)
Call(step, result) == [step |-> step, result |-> result]
Exit(status) == "exit " \o ToString(status)

\* what a failed step of _stage_final_image does: the exception goes to the
\* finally clause
Throw(e) == /\ exc' = e
            /\ pc' = "finally"

\* _stage_final_image, first statements: makedirs(<isodir>/LiveOS), _resparse()
StageBegin ==
    /\ pc = "package"
    /\ isodir' = EnsuredIsodir
    /\ ndirs' = IF isodir = None THEN ndirs + 1 ELSE ndirs
    /\ dirs' = dirs \cup {EnsuredIsodir}
    /\ staged' = staged \cup {"LiveOS/"}
    /\ seen' = seen \cup {Handed("_stage_final_image", EnsuredIsodir)}
    /\ \E resparsed \in BOOLEAN :
         IF resparsed
         THEN exc' = exc /\ pc' = "minimize"
         ELSE Throw("CreatorError: resparse failed")
    /\ UNCHANGED <<self_isDracut, grub, confvars>>
    /\ UNCHANGED <<kernels, default_kernel, root, skip_minimize, skip_compression,
                   pack_to, cfg, files, trace>>

\* a minimize step that does not look at skip_minimize
StageMinimize_Unskipped ==
    /\ pc = "minimize"
    /\ \E made \in BOOLEAN :
         IF made
         THEN /\ staged' = staged \cup {"LiveOS/osmin.img"}
              /\ trace' = Append(trace, Call("create_image_minimizer", "returned"))
              /\ exc' = exc /\ pc' = "compress"
         ELSE /\ staged' = staged
              /\ trace' = Append(trace, Call("create_image_minimizer", "raised"))
              /\ Throw("CreatorError: create_image_minimizer failed")
    /\ UNCHANGED <<self_isDracut, grub, seen, confvars>>
    /\ UNCHANGED <<kernels, default_kernel, root, skip_minimize, skip_compression,
                   pack_to, isodir, ndirs, dirs, cfg, files>>

\* if not self.skip_minimize: create_image_minimizer(<isodir>/LiveOS/osmin.img, ...)
StageMinimize ==
    /\ pc = "minimize"
    /\ IF skip_minimize
       THEN /\ pc' = "compress"
            /\ UNCHANGED <<staged, exc, trace>>
       ELSE \E made \in BOOLEAN :
              IF made
              THEN /\ staged' = staged \cup {"LiveOS/osmin.img"}
                   /\ trace' = Append(trace, Call("create_image_minimizer", "returned"))
                   /\ exc' = exc /\ pc' = "compress"
              ELSE /\ staged' = staged
                   /\ trace' = Append(trace, Call("create_image_minimizer", "raised"))
                   /\ Throw("CreatorError: create_image_minimizer failed")
    /\ UNCHANGED <<self_isDracut, grub, seen, confvars>>
    /\ UNCHANGED <<kernels, default_kernel, root, skip_minimize, skip_compression,
                   pack_to, isodir, ndirs, dirs, cfg, files>>

\* the image is moved as it is, or moved below LiveOS and squashed
StageCompress ==
    /\ pc = "compress"
    /\ IF skip_compression
       THEN /\ files' = files \ {ImagePath}
            /\ staged' = staged \cup {"LiveOS/ext3fs.img"}
            /\ trace' = Append(trace, Call("move", "returned"))
            /\ exc' = exc /\ pc' = "genisoimage"
       ELSE /\ files' = (files \ {ImagePath}) \cup {ImageLiveOS}
            /\ \E squashed \in BOOLEAN :
                 IF squashed
                 THEN /\ staged' = staged \cup {"LiveOS/squashfs.img"}
                      /\ trace' = Append(trace, Call("mksquashfs", "returned"))
                      /\ exc' = exc /\ pc' = "genisoimage"
                 ELSE /\ staged' = staged
                      /\ trace' = Append(trace, Call("mksquashfs", "raised"))
                      /\ Throw("CreatorError: mksquashfs failed")
    /\ UNCHANGED <<self_isDracut, grub, seen, confvars>>
    /\ UNCHANGED <<kernels, default_kernel, root, skip_minimize, skip_compression,
                   pack_to, isodir, ndirs, dirs, cfg>>

\* a genisoimage call whose exit status is not looked at
GenisoimageExc_Unchecked(status) == None

\* __create_iso: the exception the genisoimage call ends in (None if none)
GenisoimageExc(status) ==
    IF status # 0 THEN "CreatorError: ISO creation failed!" ELSE None

\* __create_iso: find_binary_path("genisoimage"), runner.show(args)
StageGenisoimage ==
    /\ pc = "genisoimage"
    /\ \E found \in BOOLEAN :
         IF ~found
         THEN /\ Throw("CreatorError: genisoimage not found")
              /\ trace' = Append(trace, Call("genisoimage", "absent"))
              /\ files' = files
         ELSE \E status \in ExitStatuses :
                /\ trace' = Append(trace, Call("genisoimage", Exit(status)))
                /\ IF GenisoimageExc(status) # None
                   THEN /\ Throw(GenisoimageExc(status))
                        /\ \E partial \in SUBSET {IsoPath} : files' = files \cup partial
                   ELSE /\ files' = IF status = 0 THEN files \cup {IsoPath} ELSE files
                        /\ exc' = exc /\ pc' = "isohybrid"
    /\ UNCHANGED <<self_isDracut, grub, seen, confvars>>
    /\ UNCHANGED <<kernels, default_kernel, root, skip_minimize, skip_compression,
                   pack_to, isodir, ndirs, dirs, staged, cfg>>

\* an isohybrid block whose exit status is not looked at
IsohybridExc_Unchecked(found, status) == None

\* __create_iso: the exception the isohybrid block ends in (None if none)
IsohybridExc(found, status) ==
    IF found /\ status # 0 THEN "CreatorError: Hybrid ISO creation failed!" ELSE None

\* __create_iso: try find_binary_path("isohybrid"); if found, runner.show(args)
StageIsohybrid ==
    /\ pc = "isohybrid"
    /\ \E found \in BOOLEAN, status \in ExitStatuses :
         /\ trace' = Append(trace, Call("isohybrid", IF found THEN Exit(status) ELSE "absent"))
         /\ IF IsohybridExc(found, status) # None
            THEN Throw(IsohybridExc(found, status))
            ELSE exc' = exc /\ pc' = "implantisomd5"
    /\ UNCHANGED <<self_isDracut, grub, seen, confvars>>
    /\ UNCHANGED <<kernels, default_kernel, root, skip_minimize, skip_compression,
                   pack_to, isodir, ndirs, dirs, staged, cfg, files>>

\* an implant whose non-zero exit is raised like the other tools'
ImplantExc_Checked(present, status) ==
    IF present /\ status # 0 THEN "CreatorError: implantisomd5 failed" ELSE None

\* __implant_md5sum: the exception it ends in; the status of runner.show is dropped
ImplantExc(present, status) == None

\* __implant_md5sum: a warning without the tool, else runner.show([implantisomd5, iso])
StageImplant ==
    /\ pc = "implantisomd5"
    /\ \E present \in BOOLEAN, status \in ExitStatuses :
         /\ trace' = Append(trace, Call("implantisomd5",
                                         IF present THEN Exit(status) ELSE "absent"))
         /\ IF ImplantExc(present, status) # None
            THEN Throw(ImplantExc(present, status))
            ELSE exc' = exc /\ pc' = "pack"
    /\ UNCHANGED <<self_isDracut, grub, seen, confvars>>
    /\ UNCHANGED <<kernels, default_kernel, root, skip_minimize, skip_compression,
                   pack_to, isodir, ndirs, dirs, staged, cfg, files>>

\* if self.pack_to: misc.packing(packimg, isoimg)
StagePack ==
    /\ pc = "pack"
    /\ IF pack_to = ""
       THEN /\ pc' = "finally"
            /\ UNCHANGED <<files, exc, trace>>
       ELSE \E packed \in BOOLEAN :
              IF packed
              THEN /\ files' = files \cup {PackPath(pack_to)}
                   /\ trace' = Append(trace, Call("packing", "returned"))
                   /\ exc' = exc /\ pc' = "unlink"
              ELSE /\ files' = files
                   /\ trace' = Append(trace, Call("packing", "raised"))
                   /\ Throw("CreatorError: packing failed")
    /\ UNCHANGED <<self_isDracut, grub, seen, confvars>>
    /\ UNCHANGED <<kernels, default_kernel, root, skip_minimize, skip_compression,
                   pack_to, isodir, ndirs, dirs, staged, cfg>>

\* an unlink that leaves the file
Unlink_Kept(fs, path) == fs

\* os.unlink(path) when it succeeds: the files left
Unlink(fs, path) == fs \ {path}

\* os.unlink(isoimg)
StageUnlink ==
    /\ pc = "unlink"
    /\ \E unlinked \in BOOLEAN :
         IF unlinked /\ IsoPath \in files
         THEN /\ files' = Unlink(files, IsoPath)
              /\ trace' = Append(trace, Call("unlink", "returned"))
              /\ exc' = exc /\ pc' = "finally"
         ELSE /\ files' = files
              /\ trace' = Append(trace, Call("unlink", "raised"))
              /\ Throw("OSError")
    /\ UNCHANGED <<self_isDracut, grub, seen, confvars>>
    /\ UNCHANGED <<kernels, default_kernel, root, skip_minimize, skip_compression,
                   pack_to, isodir, ndirs, dirs, staged, cfg>>

\* shutil.rmtree(self.__isodir, ignore_errors = True): the directories left
Rmtree(ds, d) == ds \ {d}

\* finally: rmtree(self.__isodir); self.__isodir = None; then the exception,
\* if there is one, goes on to the caller
StageFinally ==
    /\ pc = "finally"
    /\ dirs' = Rmtree(dirs, isodir)
    /\ staged' = IF isodir \in Rmtree(dirs, isodir) THEN staged ELSE {}
    /\ cfg' = IF isodir \in Rmtree(dirs, isodir) THEN cfg ELSE NoCfg
    /\ isodir' = None
    /\ pc' = IF exc = None THEN "done" ELSE "failed"
    /\ UNCHANGED <<self_isDracut, grub, seen, confvars>>
    /\ UNCHANGED <<kernels, default_kernel, root, skip_minimize, skip_compression,
                   pack_to, ndirs, files, exc, trace>>

-----------------------------------------------------------------------------
(* Operations outside the run of the host's configure and package steps. *)

\* _configure_efi_bootloader after __copy_efi_files returned r: [staged, grub, exc];
\* bound tells whether the name rpmUtils, which the module does not import
\* itself, is defined by "from mauimic.fs import *"
ConfigureEfiResult(rt, arch, bound, dracut, r) ==
    IF r.exc # None
    THEN [staged |-> r.staged, grub |-> NoGrub, exc |-> r.exc]
    ELSE IF r.fail
    THEN [staged |-> RmtreeEfi(r.staged), grub |-> NoGrub, exc |-> None]
    ELSE IF EfiIndex(r.staged, 0) < 9 /\ dracut = "unset"
    THEN [staged |-> r.staged, grub |-> NoGrub, exc |-> "AttributeError"]
    ELSE [staged |-> r.staged \cup {"EFI/BOOT/grub.cfg"}
                     \cup (IF bound /\ arch = "i386" THEN {"EFI/BOOT/BOOT.efi"} ELSE {}),
          grub |-> GrubText(rt, dracut, r.staged),
          exc |-> IF bound THEN None ELSE "NameError"]

\* _configure_efi_bootloader(self._get_isodir()), called on the configured
\* staging directory
ConfigureEfiBootloader ==
    /\ pc = "package"
    /\ \E arch \in BaseArchs, onError \in ErrorOutcomes, bound \in BOOLEAN :
         LET res == ConfigureEfiResult(root, arch, bound, self_isDracut,
                        CopyEfiFiles(root, arch, onError, staged)) IN
         /\ staged' = res.staged
         /\ grub' = res.grub
         /\ exc' = res.exc
         /\ pc' = IF res.exc = None THEN "efi" ELSE "failed"
    /\ UNCHANGED <<self_isDracut, seen, confvars>>
    /\ UNCHANGED <<kernels, default_kernel, root, skip_minimize, skip_compression,
                   pack_to, isodir, ndirs, dirs, cfg, files, trace>>

\* _get_isodir
GetIsodir ==
    /\ pc \in {"configure", "package"}
    /\ isodir' = EnsuredIsodir
    /\ ndirs' = IF isodir = None THEN ndirs + 1 ELSE ndirs
    /\ dirs' = dirs \cup {EnsuredIsodir}
    /\ seen' = seen \cup {Handed("_get_isodir", EnsuredIsodir)}
    /\ UNCHANGED <<self_isDracut, grub, confvars>>
    /\ UNCHANGED <<kernels, default_kernel, root, skip_minimize, skip_compression,
                   pack_to, staged, cfg, files, pc, exc, trace>>

\* _get_post_scripts_env(in_chroot): env["LIVE_ROOT"] = self.__ensure_isodir()
\* unless in_chroot
GetPostScriptsEnv ==
    /\ pc \in {"configure", "package"}
    /\ \E in_chroot \in BOOLEAN :
         IF in_chroot
         THEN UNCHANGED <<isodir, ndirs, dirs, seen>>
         ELSE /\ isodir' = EnsuredIsodir
              /\ ndirs' = IF isodir = None THEN ndirs + 1 ELSE ndirs
              /\ dirs' = dirs \cup {EnsuredIsodir}
              /\ seen' = seen \cup {Handed("_get_post_scripts_env", EnsuredIsodir)}
    /\ UNCHANGED <<self_isDracut, grub, confvars>>
    /\ UNCHANGED <<kernels, default_kernel, root, skip_minimize, skip_compression,
                   pack_to, staged, cfg, files, pc, exc, trace>>

\* _mount_instroot: the host mounts the image (or raises), then the two files
\* are written
MountInstroot ==
    /\ pc = "mount"
    /\ \E mounted \in BOOLEAN :
         IF mounted
         THEN /\ conf' = MountedConf(conf)
              /\ files' = files \cup {ImagePath}
              /\ exc' = exc /\ pc' = "mounted"
         ELSE /\ exc' = "MountError" /\ pc' = "failed"
              /\ UNCHANGED <<conf, files>>
    /\ UNCHANGED <<self_isDracut, grub, seen, conf0>>
    /\ UNCHANGED <<kernels, default_kernel, root, skip_minimize, skip_compression,
                   pack_to, isodir, ndirs, dirs, staged, cfg, trace>>

\* _unmount_instroot: the two files are restored, then the host unmounts (or raises)
UnmountInstroot ==
    /\ pc = "mounted"
    /\ conf' = UnmountedConf(conf)
    /\ \E unmounted \in BOOLEAN :
         IF unmounted
         THEN exc' = exc /\ pc' = "unmounted"
         ELSE exc' = "MountError" /\ pc' = "failed"
    /\ UNCHANGED <<self_isDracut, grub, seen, conf0>>
    /\ UNCHANGED <<kernels, default_kernel, root, skip_minimize, skip_compression,
                   pack_to, isodir, ndirs, dirs, staged, cfg, files, trace>>

-----------------------------------------------------------------------------
(* The specifications. *)

Next ==
    \/ CreateBootconfig
    \/ StageBegin
    \/ StageMinimize
    \/ StageCompress
    \/ StageGenisoimage
    \/ StageIsohybrid
    \/ StageImplant
    \/ StagePack
    \/ StageUnlink
    \/ StageFinally

Spec == Init /\ [][Next]_vars

\* the fields of an object after __init__, before any operation
Constructed ==
    /\ isodir = None
    /\ ndirs = 0
    /\ dirs = {}
    /\ staged = {}
    /\ cfg = NoCfg
    /\ exc = None
    /\ trace = <<>>
    /\ self_isDracut = "unset"
    /\ grub = NoGrub
    /\ seen = {}

\* a run in which the staging directory is also asked for by _get_isodir and
\* _get_post_scripts_env, at any time before _stage_final_image
NextStaging ==
    \/ Next
    \/ GetIsodir
    \/ GetPostScriptsEnv

\* what such a run may lack or ask for: isolinux.bin, so that
\* _create_bootconfig raises, and packing
StagingDeviations == {SyslinuxShare \o "isolinux.bin", "pack_to"}

InitStaging ==
    /\ \E m \in KernelMaps, style \in InitrdStyles :
       \E d \in SubsetsUpTo(StagingDeviations, MaxDeviations) :
         /\ kernels = KernelDict(m)
         /\ root = RootOf(KernelDict(m), style, d)
         /\ pack_to = IF "pack_to" \in d THEN PackName ELSE ""
    /\ skip_minimize = FALSE
    /\ skip_compression = FALSE
    /\ default_kernel \in DefaultKernels
    /\ files = {ImagePath}
    /\ pc = "configure"
    /\ conf0 = FreshConf
    /\ conf = MountedConf(FreshConf)
    /\ Constructed

SpecStaging == InitStaging /\ [][NextStaging]_vars

\* a run on a normal root with every combination of skip_minimize,
\* skip_compression and pack_to
InitOptions ==
    /\ \E m \in KernelMaps, style \in InitrdStyles :
         /\ kernels = KernelDict(m)
         /\ root = NormalRoot(KernelDict(m), style)
    /\ pack_to \in {"", PackName}
    /\ skip_minimize \in BOOLEAN
    /\ skip_compression \in BOOLEAN
    /\ default_kernel \in DefaultKernels
    /\ files = {ImagePath}
    /\ pc = "configure"
    /\ conf0 = FreshConf
    /\ conf = MountedConf(FreshConf)
    /\ Constructed

SpecOptions == InitOptions /\ [][Next]_vars

\* the ways a root with EFI files may differ from the normal root
EfiDeviations == SubsetsUpTo({"/usr/bin/checkisomd5", "/usr/bin/plymouth"}, MaxDeviations)

\* a configured staging directory on which _configure_efi_bootloader is called
InitEfi ==
    /\ \E m \in KernelMaps, style \in InitrdStyles, d \in EfiDeviations, e \in SUBSET EfiPaths :
         /\ kernels = KernelDict(m)
         /\ root = RootOf(KernelDict(m), style, d) \cup e
    /\ skip_minimize = FALSE
    /\ skip_compression = FALSE
    /\ pack_to = ""
    /\ default_kernel \in DefaultKernels
    /\ files = {ImagePath}
    /\ pc = "configure"
    /\ conf0 = FreshConf
    /\ conf = MountedConf(FreshConf)
    /\ Constructed

NextEfi ==
    \/ CreateBootconfig
    \/ ConfigureEfiBootloader

SpecEfi == InitEfi /\ [][NextEfi]_vars

\* the root is mounted and unmounted, the image new or based on another
InitMount ==
    /\ conf \in BaseConfs
    /\ conf0 = conf
    /\ kernels = <<>>
    /\ root = {}
    /\ skip_minimize = FALSE
    /\ skip_compression = FALSE
    /\ pack_to = ""
    /\ default_kernel = None
    /\ files = {}
    /\ pc = "mount"
    /\ Constructed

NextMount ==
    \/ MountInstroot
    \/ UnmountInstroot

SpecMount == InitMount /\ [][NextMount]_vars

-----------------------------------------------------------------------------
(* Vocabulary of the properties. *)

\* the run is over: the caller has the result or the exception
Ended == pc \in {"done", "failed"}

\* isolinux.cfg has been written and is still in the staging directory
CfgWritten == cfg # NoCfg

\* the (package, version) pairs in enumeration order; pair i has boot index i - 1
Variants == Flatten(kernels)

\* the positions of the stanzas of isolinux.cfg that carry "menu default"
MenuDefaultStanzas == { i \in 1..Len(cfg.body) : cfg.body[i].menudefault }

\* the positions of the verification stanzas of isolinux.cfg
CheckStanzas == { i \in 1..Len(cfg.body) : StartsWith(cfg.body[i].label, "check") }

\* the variants __is_default_kernel accepts
DefaultVariants ==
    { i \in 1..Len(Variants) : IsDefaultKernel(Variants[i].pkg, kernels, default_kernel) }

\* the package name is the configured default, as it is or without "kernel-"
NameMatches(kernel) ==
    \/ kernel = default_kernel
    \/ StartsWith(kernel, "kernel-") /\ DropFirst(kernel, 7) = default_kernel

\* the files the stanzas of isolinux.cfg and its header name
Referenced ==
    { cfg.header[1].default }
    \cup UNION { { cfg.body[i].refs[j] : j \in 1..Len(cfg.body[i].refs) }
                 : i \in 1..Len(cfg.body) }

\* the tool was found and exited non-zero
ExitedNonZero(entry) == \E status \in ExitStatuses \ {0} : entry.result = Exit(status)

HybridFailed == "CreatorError: Hybrid ISO creation failed!"
MasteringFailed == "CreatorError: ISO creation failed!"

\* the place of a step in _stage_final_image
Rank(step) ==
    CASE step = "create_image_minimizer" -> 1
      [] step \in {"move", "mksquashfs"} -> 2
      [] step = "genisoimage" -> 3
      [] step = "isohybrid" -> 4
      [] step = "implantisomd5" -> 5
      [] step = "packing" -> 6
      [] step = "unlink" -> 7

\* _create_bootconfig has just returned: isolinux.cfg is as it was written
\* (no later step of the run changes it or the files of isolinux/)
Configured == pc = "package" /\ CfgWritten

\* what the staging directory holds below EFI/
EfiStaged == { f \in staged : StartsWith(f, "EFI/") }

\* _configure_efi_bootloader has been called and has returned or raised
EfiCalled == pc = "efi" \/ (pc = "failed" /\ CfgWritten)

\* the required EFI files the root does not have
MissingEfi == { n \in EfiNames : EfiGlob(root, n) = {} }

\* the stanzas of isolinux.cfg of one kind, in the order they are written
IsLinux(stanza) == StartsWith(stanza.label, "linux")
IsBasic(stanza) == StartsWith(stanza.label, "basic")
IsCheck(stanza) == StartsWith(stanza.label, "check")

\* the labels kind0, kind1, ... of n variants
Labels(kind, n) == [i \in 1..n |-> kind \o ToString(i - 1)]

\* the labels of a sequence of stanzas
LabelsOf(stanzas) == [i \in 1..Len(stanzas) |-> stanzas[i].label]

\* the files in refs, as a set
RefSet(stanza) == { stanza.refs[j] : j \in 1..Len(stanza.refs) }

\* the kernel and initrd files in isolinux/
StagedWith(prefix) == { f \in staged : StartsWith(f, "isolinux/" \o prefix) }

\* one kernel with its initramfs, checkisomd5 in the root, the default options
Scenario ==
    /\ Len(Variants) = 1
    /\ Exists(root, "/boot/initramfs-" \o Variants[1].version \o ".img")
    /\ HasCheckisomd5(root)
    /\ pack_to = ""

\* genisoimage, isohybrid and implantisomd5 were found and exited zero
ToolsSucceeded ==
    \A step \in {"genisoimage", "isohybrid", "implantisomd5"} :
        \E i \in 1..Len(trace) : trace[i] = Call(step, Exit(0))

\* _stage_final_image has returned or raised
StagedFinal == Ended /\ \E h \in seen : h.op = "_stage_final_image"

\* the end-to-end scenario, for a form of the root reference
EndToEnd(rootlabel) ==
    ((Configured \/ Ended) /\ Scenario) =>
        /\ Configured =>
             /\ LabelsOf(SelectSeq(cfg.body, IsLinux)) = <<"linux0">>
             /\ \A i \in 1..Len(cfg.body) :
                  IsLinux(cfg.body[i]) =>
                     /\ {"vmlinuz0", "initrd0.img"} \subseteq RefSet(cfg.body[i])
                     /\ cfg.body[i].rootlabel = rootlabel
        /\ (Ended /\ ToolsSucceeded) =>
             /\ pc = "done"
             /\ IsoPath \in files
             /\ dirs = {}
             /\ isodir = None

-----------------------------------------------------------------------------
(* The properties. *)

\* C1: whichever step fails, or if none fails, no run ends (Done or Failed)
\* with the staging directory it created still present.
C1_StagingRemovedAtEnd ==
    Ended => dirs = {}

\* C2: with at least one kernel version, exactly one variant is marked default,
\* and the written isolinux.cfg holds exactly one "menu default", on the
\* linux<index> stanza of that variant.
C2_ExactlyOneMenuDefault ==
    (CfgWritten /\ Len(Variants) >= 1) =>
        /\ Cardinality(DefaultVariants) = 1
        /\ Cardinality(MenuDefaultStanzas) = 1
        /\ \A i \in MenuDefaultStanzas :
             \E v \in DefaultVariants : cfg.body[i].label = "linux" \o ToString(v - 1)

\* C3: with more than one variant and no package name matching the configured
\* default kernel, the first variant (boot index 0) is the default: its linux0
\* stanza carries "menu default".
C3_FirstVariantIsFallback ==
    (/\ CfgWritten
     /\ Len(Variants) > 1
     /\ \A i \in 1..Len(Variants) : ~NameMatches(Variants[i].pkg)) =>
        \E i \in MenuDefaultStanzas : cfg.body[i].label = "linux0"

\* C4: every file a written isolinux.cfg names was copied into isolinux/ of
\* the staging directory in the same run (so a run that cannot copy a declared
\* artifact writes no configuration).
C4_ReferencedFilesAreStaged ==
    CfgWritten => \A f \in Referenced : ("isolinux/" \o f) \in staged

\* C5: a run on a root with zero kernel versions fails, and has created no
\* staging directory when it fails.
C5_ZeroKernelsFailBeforeStaging ==
    (Len(Variants) = 0 /\ pc # "configure") => (pc = "failed" /\ ndirs = 0)

\* C6: when isohybrid is not found the run goes on to the checksum implant
\* (and can end Done); when it is found and exits non-zero the run fails with
\* the hybrid error, nothing is called after it (no implant, no packing), and
\* the staging directory is removed when the run has failed.
C6_HybridHandling ==
    \A i \in 1..Len(trace) :
        trace[i].step = "isohybrid" =>
            /\ trace[i].result = "absent" =>
                 IF i = Len(trace)
                 THEN pc = "implantisomd5" /\ exc = None
                 ELSE trace[i + 1].step = "implantisomd5"
            /\ ExitedNonZero(trace[i]) =>
                 /\ i = Len(trace)
                 /\ exc = HybridFailed
                 /\ pc \in {"finally", "failed"}
                 /\ pc = "failed" => (dirs = {} /\ isodir = None)

\* C6, reached: a run without isohybrid that ended Done.
C6_Witness ==
    /\ pc = "done"
    /\ \E i \in 1..Len(trace) : trace[i] = Call("isohybrid", "absent")

\* C7: the calls of a run come in the order compress or move, genisoimage,
\* isohybrid, implantisomd5, packing, unlink; a run that ends Done has made
\* the first four; and when genisoimage exits non-zero the run fails with the
\* mastering error and nothing is called after it.
C7_MasteringFailureStopsRun ==
    /\ \A i, j \in 1..Len(trace) : i < j => Rank(trace[i].step) < Rank(trace[j].step)
    /\ pc = "done" => \A r \in 2..5 : \E i \in 1..Len(trace) : Rank(trace[i].step) = r
    /\ \A i \in 1..Len(trace) :
         (trace[i].step = "genisoimage" /\ ExitedNonZero(trace[i])) =>
            /\ i = Len(trace)
            /\ exc = MasteringFailed
            /\ pc \in {"finally", "failed"}

\* C7, reached: a run that failed because genisoimage exited non-zero.
C7_Witness ==
    /\ pc = "failed"
    /\ exc = MasteringFailed
    /\ Len(trace) > 0 /\ trace[Len(trace)].step = "genisoimage"

\* C8: with pack_to set, a run that has ended either failed (an exception
\* reached the caller) or left the packed file and no bare ISO.
C8_PackedOrFailed ==
    (pack_to # "" /\ Ended) =>
        \/ pc = "failed" /\ exc # None
        \/ pc = "done" /\ exc = None
                       /\ PackPath(pack_to) \in files /\ IsoPath \notin files

\* C8, reached: a packing run that ended Done.
C8_Witness ==
    /\ pack_to # ""
    /\ pc = "done"
    /\ PackPath(pack_to) \in files

\* C9: the checksum implant never fails a run: with the tool absent, or
\* exiting zero, or exiting non-zero, the run goes on with no exception, to
\* packing or to the end.
C9_ImplantNeverFails ==
    \A i \in 1..Len(trace) :
        trace[i].step = "implantisomd5" =>
            IF i = Len(trace)
            THEN exc = None /\ pc \in {"pack", "finally", "done"}
            ELSE trace[i + 1].step = "packing"

\* C9, reached: a run that ended Done although implantisomd5 exited non-zero.
C9_Witness ==
    /\ pc = "done"
    /\ \E i \in 1..Len(trace) :
         trace[i].step = "implantisomd5" /\ ExitedNonZero(trace[i])

\* C10: a written isolinux.cfg has no check<index> stanza when checkisomd5 is
\* not in the root, and otherwise exactly one per variant, check<i> naming the
\* files of variant i.
C10_CheckStanzas ==
    Configured =>
        IF HasCheckisomd5(root)
        THEN /\ Cardinality(CheckStanzas) = Len(Variants)
             /\ \A v \in 1..Len(Variants) :
                  \E i \in CheckStanzas :
                     /\ cfg.body[i].label = "check" \o ToString(v - 1)
                     /\ \E j \in 1..Len(cfg.body[i].refs) :
                          cfg.body[i].refs[j] = "vmlinuz" \o ToString(v - 1)
        ELSE CheckStanzas = {}

\* C10, reached: a configuration for two or more variants with checkisomd5
\* in the root.
C10_Witness ==
    /\ CfgWritten
    /\ HasCheckisomd5(root)
    /\ Len(Variants) >= 2
    /\ CheckStanzas # {}

\* C11: after _configure_efi_bootloader, if one of shim.efi, gcdx64.efi and
\* fonts/unicode.pf2 is missing from the root then the staging directory holds
\* nothing below EFI/ (no grub.cfg either) and no exception reaches the
\* caller; EFI files and grub.cfg are staged only when all three are there.
C11_EfiAllOrNothing ==
    EfiCalled =>
        /\ MissingEfi # {} => (EfiStaged = {} /\ grub = NoGrub /\ exc = None /\ pc = "efi")
        /\ EfiStaged # {} => MissingEfi = {}

\* C12: with one kernel, its initramfs, checkisomd5 and the tools exiting
\* zero, the written isolinux.cfg has the one primary stanza linux0, naming
\* vmlinuz0 and initrd0.img with root=live:LABEL=<fslabel>, and the run ends
\* Done with the ISO written and the staging directory removed.
C12_EndToEndLabel == EndToEnd("live:LABEL=" \o Fslabel)

\* C12, as amended: the same, the root reference being
\* root=live:CDLABEL=<fslabel>.
C12_EndToEndCdlabel == EndToEnd("live:CDLABEL=" \o Fslabel)

\* C12, reached: the scenario ended Done, the three tools having exited zero.
C12_Witness ==
    /\ Scenario
    /\ ToolsSucceeded
    /\ pc = "done"

\* C13: after _mount_instroot and then _unmount_instroot, each of
\* /etc/sysconfig/mkinitrd and /etc/dracut.conf.d/02livecd.conf is as it was
\* before the mount: absent if it was absent, else there with the same text.
C13_MountUnmountRestores ==
    pc = "unmounted" => \A p \in ConfPaths : conf[p] = conf0[p]

\* C14: in a written isolinux.cfg the labels of the N variants are linux0 ..
\* linux<N-1>, basic0 .. basic<N-1> and (with checkisomd5) check0 ..
\* check<N-1>, in discovery order; the stanzas of index i name vmlinuz<i> and
\* initrd<i>.img and no file of another index; and the kernels staged are
\* vmlinuz0 .. vmlinuz<N-1>, the initrds staged being among initrd0.img ..
\* initrd<N-1>.img.
C14_ContiguousIndices ==
    Configured =>
        /\ LabelsOf(SelectSeq(cfg.body, IsLinux)) = Labels("linux", Len(Variants))
        /\ LabelsOf(SelectSeq(cfg.body, IsBasic)) = Labels("basic", Len(Variants))
        /\ LabelsOf(SelectSeq(cfg.body, IsCheck)) =
              Labels("check", IF HasCheckisomd5(root) THEN Len(Variants) ELSE 0)
        /\ \A v \in 1..Len(Variants) :
             /\ SelectSeq(cfg.body, IsLinux)[v].menulabel =
                   "^Start " \o LongName(Variants[v].pkg,
                                         IsDefaultKernel(Variants[v].pkg, kernels, default_kernel))
             /\ \A i \in 1..Len(cfg.body) :
                  cfg.body[i].label \in { k \o ToString(v - 1) : k \in {"linux", "basic", "check"} } =>
                     /\ {"vmlinuz" \o ToString(v - 1), "initrd" \o ToString(v - 1) \o ".img"}
                           \subseteq RefSet(cfg.body[i])
                     /\ RefSet(cfg.body[i]) \subseteq
                           {"vmlinuz" \o ToString(v - 1), "initrd" \o ToString(v - 1) \o ".img",
                            "xen" \o ToString(v - 1) \o ".gz", "mboot.c32"}
        /\ StagedWith("vmlinuz") =
              { "isolinux/vmlinuz" \o ToString(v - 1) : v \in 1..Len(Variants) }
        /\ StagedWith("initrd") \subseteq
              { "isolinux/initrd" \o ToString(v - 1) \o ".img" : v \in 1..Len(Variants) }

\* C14, reached: a configuration written for three or more variants.
C14_Witness ==
    /\ Configured
    /\ Len(Variants) >= 3
    /\ "isolinux/vmlinuz2" \in staged

\* C15: when _stage_final_image comes to the ISO mastering, LiveOS/ of the
\* staging directory holds osmin.img exactly if skip_minimize is false, and
\* one root image: ext3fs.img if skip_compression is true, else squashfs.img;
\* the raw image is no longer at its path.
C15_LiveOSContent ==
    pc = "genisoimage" =>
        /\ ("LiveOS/osmin.img" \in staged) <=> ~skip_minimize
        /\ staged \cap {"LiveOS/ext3fs.img", "LiveOS/squashfs.img"} =
              {IF skip_compression THEN "LiveOS/ext3fs.img" ELSE "LiveOS/squashfs.img"}
        /\ ImagePath \notin files

\* C15, reached: the mastering with both steps skipped.
C15_Witness ==
    /\ pc = "genisoimage"
    /\ skip_minimize
    /\ skip_compression
    /\ "LiveOS/ext3fs.img" \in staged

\* C16: whatever calls of _get_isodir, _create_bootconfig and
\* _get_post_scripts_env(False) come before _stage_final_image, one directory
\* is allocated and each call is handed that directory; and when
\* _stage_final_image has returned or raised, self.__isodir is None.
C16_OneStagingDirectory ==
    /\ ndirs <= 1
    /\ seen # {} => ndirs = 1
    /\ \A g, h \in seen : g.dir = h.dir
    /\ isodir # None => (isodir \in dirs /\ \A h \in seen : h.dir = isodir)
    /\ StagedFinal => isodir = None

\* C16, reached: the three operations were called, then _stage_final_image ended.
C16_Witness ==
    /\ StagedFinal
    /\ { h.op : h \in seen } =
          {"_get_isodir", "_create_bootconfig", "_get_post_scripts_env", "_stage_final_image"}

====
